---- MODULE Spec2Model ----
(***************************************************************************)
(* Model of hri_api/entities/robot.py: the Robot facade, its action        *)
(* handles and the SayToPlan executor, together with the actionlib         *)
(* clients as the facade uses them.                                        *)
(*                                                                         *)
(* Threads of the program: one application thread calling the Robot API    *)
(* (it may sit blocked in Robot.wait), one executor thread per say_to      *)
(* call (SayToPlan.__execute), and the action clients' callback thread     *)
(* (say_feedback, say_done, gaze_done).                                    *)
(*                                                                         *)
(* The text compiler of SayToPlan (get_sentence, get_gaze_change_locations *)
(* and the tag loop of parse_parameters) is also exercised on its own over *)
(* a bounded set of fragments, and so is the registry of world.py.         *)
(***************************************************************************)
EXTENDS Integers, Sequences, FiniteSets, TLC

\* ------------------------------------------------------------------------
\* Bounds of the model
\* ------------------------------------------------------------------------
MaxCalls == 2          \* say_to calls that reach execute()
MaxGoals == 4          \* goals sent to the action servers, all channels
MaxWord  == 2          \* largest word index a feedback message carries
MaxApp   == 3          \* calls the application makes, of any method
MaxNodes == 2          \* tags of a fragment given to the compiler on its own
MaxAdds  == 3          \* add_to_world calls made on the registry

Invs == 1..MaxCalls

\* ------------------------------------------------------------------------
\* Handles.  A SingleGoalActionHandle holds only its action client; g is
\* the goal it was returned for (object identity of the handle).  A
\* MultiGoalActionHandle holds the client and the goal handle g.  A
\* SayToActionHandle holds the plan; g is the say_to call it was returned
\* from.
\* ------------------------------------------------------------------------
None == [k |-> "none", g |-> 0]

SingleGoalActionHandle(g) == [k |-> "single", g |-> g]

MultiGoalActionHandle(g) == [k |-> "multi", g |-> g]

SayToActionHandle(i) == [k |-> "sayto", g |-> i]

SingleChans == {"tts", "gaze"}

\* ------------------------------------------------------------------------
\* Annotated text.  A fragment is the text of the synthetic root followed
\* by its nodes in the order of ElementTree.iter() (document order of the
\* start tags), each with its nesting depth; a text run is a sequence of
\* word tokens (a token carries its trailing punctuation mark), NoText is
\* Python's None, the empty run is white space.
\* ------------------------------------------------------------------------
NoText == <<"<none>">>

Punct == {"Hi,", "you."}

expression_enum == {"happy"}

gesture_enum == {"wave"}

Node(tag, attrs, text, tail) ==
    [tag |-> tag, attrs |-> attrs, text |-> text, tail |-> tail, depth |-> 1]

\* the same element as a child of the element before it at depth d - 1
Nested(n, d) == [n EXCEPT !.depth = d]

Fragment(text, nodes) == [text |-> text, nodes |-> nodes]

\* "Hi, <wave target="P">there</wave>"
TextWave == Fragment(<<"Hi,">>, <<Node("wave", {"target"}, <<"there">>, NoText)>>)

\* "<wave>there</wave>"
TextNoTarget == Fragment(NoText, <<Node("wave", {}, <<"there">>, NoText)>>)

Texts == {TextWave, TextNoTarget}

Run(t) == IF t = NoText THEN <<>> ELSE t

num_words(text) == Len(text)

RECURSIVE SentenceOfNodes(_)
SentenceOfNodes(nodes) ==
    IF nodes = <<>> THEN <<>>
    ELSE LET n == Head(nodes)
         IN  Run(n.text) \o (IF n.tail # NoText THEN Run(n.text) ELSE <<>>)
                \o SentenceOfNodes(Tail(nodes))

get_sentence(frag) == Run(frag.text) \o SentenceOfNodes(frag.nodes)

\* get_sentence raises when it concatenates a None text (node.tail is set,
\* node.text is None)
SentenceRaises(frag) ==
    \E k \in 1..Len(frag.nodes) :
        frag.nodes[k].tail # NoText /\ frag.nodes[k].text = NoText

\* word counts of the pieces of re.split("[,.?!]", text), accumulated
RECURSIVE ClauseEnds(_, _)
ClauseEnds(text, length) ==
    IF text = <<>> THEN {length + 1}
    ELSE IF Head(text) \in Punct
         THEN {length + 2} \cup ClauseEnds(Tail(text), length + 1)
         ELSE ClauseEnds(Tail(text), length + 1)

\* the triggers without the + 1: the last word of each clause
clause_last_words(text) == {n - 1 : n \in ClauseEnds(text, 0)}

get_gaze_change_locations(text) == ClauseEnds(text, 0)

\* The tag loop of parse_parameters: r.seen is seen_text, r.ex and r.ge are
\* the lookups, r.dur the (start_word_i, end_word_i) pairs passed to
\* tts_duration_srv, r.err is the exception that ended the loop ("" for
\* none).
RECURSIVE ParseNodes(_, _)
ParseNodes(nodes, r) ==
    IF nodes = <<>> \/ r.err # "" THEN r
    ELSE LET n == Head(nodes)
             start_word_i == num_words(r.seen)
             seen1 == r.seen \o Run(n.text)
             end_word_i == num_words(seen1)
             seen2 == seen1 \o Run(n.tail)
             dur1 == Append(r.dur, <<start_word_i, end_word_i>>)
         IN  IF n.tag \in expression_enum
             THEN ParseNodes(Tail(nodes),
                    [r EXCEPT !.seen = seen2, !.dur = dur1,
                              !.ex = [w \in DOMAIN r.ex \cup {start_word_i} |->
                                        IF w = start_word_i THEN n.tag ELSE r.ex[w]]])
             ELSE IF n.tag \in gesture_enum
             THEN IF "target" \in n.attrs
                  THEN ParseNodes(Tail(nodes),
                         [r EXCEPT !.seen = seen2, !.dur = dur1,
                                   !.ge = [w \in DOMAIN r.ge \cup {start_word_i} |->
                                             IF w = start_word_i THEN n.tag ELSE r.ge[w]]])
                  ELSE [r EXCEPT !.seen = seen1, !.err = "AttributeError"]
             ELSE [r EXCEPT !.seen = seen1, !.err = "TypeError"]

EmptyLookup == [w \in {} |-> ""]

ParseTags(frag) ==
    ParseNodes(frag.nodes, [seen |-> Run(frag.text), ex |-> EmptyLookup,
                            ge |-> EmptyLookup, dur |-> <<>>, err |-> ""])

\* ------------------------------------------------------------------------
\* Audiences: an Entity, a Query with its result set, or a list of
\* entities.  Dist is p.distance_to(robot).
\* ------------------------------------------------------------------------
NoAudience == [kind |-> "none", members |-> {}]

Entity(p) == [kind |-> "entity", members |-> {p}]

Query(s) == [kind |-> "query", members |-> s]

List(s) == [kind |-> "list", members |-> s]

\* ParamFormatting.assert_types(method, arg, *types): the argument is an
\* instance of one of the types; a TypeError is raised otherwise
assert_types(kind, types) == kind \in types

Audiences == {Entity("P"), Query({}), Query({"A", "B"})}

Dist(p) == CASE p = "A" -> 1 [] p = "B" -> 2 [] OTHER -> 0

Nearest(s) == CHOOSE p \in s : \A q \in s : Dist(p) <= Dist(q)

VARIABLES
    goals,           \* every goal sent to an action server, in order of sending
    cur,             \* per SimpleActionClient: the goal it tracks (0: none)
    action_handles,  \* Robot.action_handles
    robot_say_ah,    \* Robot.say_ah
    robot_gaze_ah,   \* Robot.gaze_ah
    plan,            \* Robot.say_to_plan, the one SayToPlan object
    pc,              \* per say_to call: where its executor thread is
    person,          \* per executor thread: the local variable person
    waiting,         \* per executor thread: the handle it passed to Robot.wait
    held,            \* per executor thread: the lock object it holds (0: none)
    ghost,           \* history: calls made, invocations preempted
    waiter,          \* the application thread inside Robot.wait
    last,            \* the last Robot.wait / Robot.cancel call that ended
    source,          \* the text given to the compiler when it runs on its own
    duration_calls,  \* the (start, end) pairs that compile passed to tts_duration_srv
    entity_id_lookup, \* World.entity_id_lookup
    entities,        \* World.entities
    added,           \* the add_to_world calls made, in order
    adding,          \* per thread: the object it is about to store (NoObject: none)
    inflight         \* a Robot.gaze / Robot.say past send_goal, done callbacks invoked

vars == <<goals, cur, action_handles, robot_say_ah, robot_gaze_ah, plan, pc,
          person, waiting, held, ghost, waiter, last, source, duration_calls,
          entity_id_lookup, entities, added, adding, inflight>>

\* what the facade's methods and threads leave alone: the compiler's own
\* input and the registry
apart == <<source, duration_calls, entity_id_lookup, entities, added, adding,
           inflight>>

\* ------------------------------------------------------------------------
\* The objects given to the registry: an Entity or a Query with the id
\* get_id() returns, or an object of another class; obj is the identity of
\* the object.  The threads that call add_to_world: the application (and
\* the facade's threads, through Robot.gaze) and the add_entity service.
\* ------------------------------------------------------------------------
WorldObject(id, kind, obj) == [id |-> id, kind |-> kind, obj |-> obj]

NoObject == WorldObject("", "none", 0)

WorldObjects ==
    {WorldObject("P", "entity", 1), WorldObject("P", "entity", 2),
     WorldObject("P", "query", 3), WorldObject("Q", "entity", 4),
     WorldObject("X", "other", 5)}

WorldThreads == {"app", "srv"}


\* ------------------------------------------------------------------------
\* The facade's state as one value, so that the calls a method makes in
\* sequence compose.
\* ------------------------------------------------------------------------
State == [goals |-> goals, cur |-> cur, action_handles |-> action_handles,
          robot_say_ah |-> robot_say_ah, robot_gaze_ah |-> robot_gaze_ah,
          plan |-> plan]

Assign(S) ==
    /\ goals' = S.goals
    /\ cur' = S.cur
    /\ action_handles' = S.action_handles
    /\ robot_say_ah' = S.robot_say_ah
    /\ robot_gaze_ah' = S.robot_gaze_ah
    /\ plan' = S.plan

Goal(chan, by, inv, cb, pre) ==
    [chan |-> chan, st |-> "active", cancelReq |-> FALSE, by |-> by,
     inv |-> inv, cb |-> cb, pre |-> pre, idx |-> 0]

Terminal(gs, g) == gs[g].st = "done"

\* SimpleActionClient.send_goal: the client stops tracking its previous
\* goal (whose callbacks are dropped) and the server preempts it.
Supersede(gs, g) ==
    [k \in DOMAIN gs |-> IF k = g /\ gs[k].st = "active"
                         THEN [gs[k] EXCEPT !.st = "done"] ELSE gs[k]]

RECURSIVE RemoveFirst(_, _)
RemoveFirst(seq, x) ==
    IF seq = <<>> THEN <<>>
    ELSE IF Head(seq) = x THEN Tail(seq)
         ELSE <<Head(seq)>> \o RemoveFirst(Tail(seq), x)

Contains(seq, x) == \E k \in DOMAIN seq : seq[k] = x

add_action_handle(S, ah) ==
    [S EXCEPT !.action_handles = Append(@, ah)]

remove_action_handle(S, ah) ==
    [S EXCEPT !.action_handles = IF Contains(@, ah) THEN RemoveFirst(@, ah) ELSE @]

\* Robot.say
say(S, by, inv) ==
    LET n == Len(S.goals) + 1
        ah == SingleGoalActionHandle(n)
        S1 == [S EXCEPT !.goals = Append(Supersede(@, S.cur["tts"]),
                                         Goal("tts", by, inv, TRUE, S.plan.preempt_requested)),
                        !.cur = [@ EXCEPT !["tts"] = n],
                        !.robot_say_ah = ah]
    IN  add_action_handle(S1, ah)

\* Robot.gaze
gaze(S, by, inv) ==
    LET n == Len(S.goals) + 1
        ah == SingleGoalActionHandle(n)
        S1 == [S EXCEPT !.goals = Append(Supersede(@, S.cur["gaze"]),
                                         Goal("gaze", by, inv, TRUE, S.plan.preempt_requested)),
                        !.cur = [@ EXCEPT !["gaze"] = n],
                        !.robot_gaze_ah = ah]
    IN  add_action_handle(S1, ah)

\* Robot.do with one GestureGoal or ExpressionGoal: no done callback is
\* passed to send_goal
do(S, chan, by, inv) ==
    LET n == Len(S.goals) + 1
        S1 == [S EXCEPT !.goals = Append(@, Goal(chan, by, inv, FALSE,
                                                 S.plan.preempt_requested))]
    IN  add_action_handle(S1, MultiGoalActionHandle(n))

\* SingleGoalActionHandle.cancel_action / MultiGoalActionHandle.cancel_action:
\* the single-goal handle cancels whatever goal its client tracks
cancel_action(S, ah) ==
    LET g == IF ah.k = "single" THEN S.cur[S.goals[ah.g].chan] ELSE ah.g
    IN  IF g # 0 /\ S.goals[g].st = "active"
        THEN [S EXCEPT !.goals[g].cancelReq = TRUE]
        ELSE S

\* Robot.cancel(ah) for a single-goal or multi-goal handle
cancel(S, ah) == remove_action_handle(cancel_action(S, ah), ah)

RECURSIVE cancel_all(_, _)
cancel_all(S, ahs) ==
    IF ahs = <<>> THEN S ELSE cancel_all(cancel(S, Head(ahs)), Tail(ahs))

\* a wait_for_result that never returns
wait_forever(ah) == FALSE

\* SingleGoalActionHandle.wait_for_result returns: the client's current
\* goal is terminal (or the client has no goal)
WaitReady(ah) ==
    IF ah.k = "single"
    THEN LET g == cur[goals[ah.g].chan] IN g = 0 \/ Terminal(goals, g)
    ELSE Terminal(goals, ah.g)

\* ------------------------------------------------------------------------
\* SayToPlan
\* ------------------------------------------------------------------------
\* SayToPlan.reset (and __init__): lock is the identity of the RLock object
reset(p) ==
    [audience |-> NoAudience, current_gazee |-> "", sentence |-> <<>>,
     gesture_lookup |-> EmptyLookup, expression_lookup |-> EmptyLookup,
     gaze_change_locations |-> {}, say_ah |-> None, gaze_ah |-> None,
     other_ahs |-> <<>>, preempt_requested |-> FALSE, lock |-> p.lock + 1,
     thread |-> 0]

\* SayToPlan.parse_parameters; the fields an exception leaves behind are
\* those assigned before it was raised
parse_parameters(p, text, audience) ==
    LET p1 == [reset(p) EXCEPT !.audience = audience]
        r  == ParseTags(text)
    IN  IF ~assert_types(audience.kind, {"entity", "query"}) \/ SentenceRaises(text)
        THEN p1
        ELSE [p1 EXCEPT !.sentence = get_sentence(text),
                        !.gaze_change_locations =
                            get_gaze_change_locations(get_sentence(text)),
                        !.expression_lookup = r.ex,
                        !.gesture_lookup = r.ge]

ParseRaises(text) == SentenceRaises(text) \/ ParseTags(text).err # ""

\* Robot.say_to raises: its own assert_types (Entity, Query, list), then
\* those of parse_parameters (Entity, Query), then the compilation
CompileRaises(text, audience) ==
    \/ ~assert_types(audience.kind, {"entity", "query", "list"})
    \/ ~assert_types(audience.kind, {"entity", "query"})
    \/ ParseRaises(text)

Live(i) == pc[i] \notin {"none", "done"}

LockFree(l) == \A i \in Invs : held[i] # l

InitRobot ==
    /\ goals = <<>>
    /\ cur = [c \in SingleChans |-> 0]
    /\ action_handles = <<>>
    /\ robot_say_ah = None
    /\ robot_gaze_ah = None
    /\ plan = reset([lock |-> 0])
    /\ pc = [i \in Invs |-> "none"]
    /\ person = [i \in Invs |-> ""]
    /\ waiting = [i \in Invs |-> None]
    /\ held = [i \in Invs |-> 0]
    /\ ghost = [calls |-> 0, app |-> 0, preempted |-> {}, early |-> {}]
    /\ waiter = [pc |-> "idle", h |-> None, t |-> 0, q |-> <<>>]
    /\ last = [op |-> "none", h |-> None, res |-> "none", second |-> FALSE]

\* no text has been given to the compiler on its own
NoFragment == [text |-> NoText, nodes |-> <<>>, given |-> FALSE]

InitCompiler ==
    /\ source = NoFragment
    /\ duration_calls = <<>>

\* World.__init__: entity_id_lookup = {}, entities = []
InitWorld ==
    /\ entity_id_lookup = [id \in {} |-> NoObject]
    /\ entities = <<>>
    /\ added = <<>>
    /\ adding = [t \in WorldThreads |-> NoObject]

\* no Robot.gaze or Robot.say is between its send_goal and the assignment
\* of its handle, no done callback has been invoked and not yet run
InitClients == inflight = [issuing |-> 0, done |-> {}]

Init == InitRobot /\ InitCompiler /\ InitWorld /\ InitClients

\* Robot.say_to(text, audience): parse_parameters, then execute() starts a
\* thread and the SayToActionHandle is registered
SayTo(text, audience) ==
    /\ waiter.pc = "idle"
    /\ ghost.app < MaxApp
    /\ IF CompileRaises(text, audience)
       THEN /\ plan' = parse_parameters(plan, text, audience)
            /\ ghost' = [ghost EXCEPT !.app = @ + 1]
            /\ UNCHANGED <<action_handles, pc>>
       ELSE /\ ghost.calls < MaxCalls
            /\ LET i == ghost.calls + 1
               IN  /\ plan' = [parse_parameters(plan, text, audience) EXCEPT !.thread = i]
                   /\ pc' = [pc EXCEPT ![i] = "start"]
                   /\ action_handles' = Append(action_handles, SayToActionHandle(i))
                   /\ ghost' = [ghost EXCEPT !.calls = i, !.app = @ + 1]
    /\ UNCHANGED <<goals, cur, robot_say_ah, robot_gaze_ah, person, waiting, held, waiter, last>>
    /\ UNCHANGED apart


\* ------------------------------------------------------------------------
\* SayToPlan.__execute, one step per atomic region of the thread
\* ------------------------------------------------------------------------
\* pick the person to gaze at, take self.lock and test preempt_requested
ExecSelect(i) ==
    /\ pc[i] = "start"
    /\ LET audience == plan.audience
           picks == audience.kind = "entity" \/ audience.members # {}
       IN  IF ~picks
           THEN /\ pc' = [pc EXCEPT ![i] = "gaze_chk"]
                /\ UNCHANGED <<plan, person, held>>
           ELSE /\ LockFree(plan.lock)
                /\ person' = [person EXCEPT ![i] =
                                IF audience.kind = "entity"
                                THEN CHOOSE p \in audience.members : TRUE
                                ELSE Nearest(audience.members)]
                /\ plan' = IF audience.kind = "entity" THEN plan
                           ELSE [plan EXCEPT !.current_gazee = person'[i]]
                /\ IF ~plan.preempt_requested
                   THEN /\ pc' = [pc EXCEPT ![i] = "gaze_issue"]
                        /\ held' = [held EXCEPT ![i] = plan.lock]
                   ELSE /\ pc' = [pc EXCEPT ![i] = "gaze_chk"]
                        /\ UNCHANGED held
    /\ UNCHANGED <<goals, cur, action_handles, robot_say_ah, robot_gaze_ah,
                   waiting, ghost, waiter, last>>
    /\ UNCHANGED apart

\* self.gaze_ah = self.robot.gaze(person.head), then the lock is released
ExecGazeIssue(i) ==
    /\ pc[i] = "gaze_issue"
    /\ Len(goals) < MaxGoals
    /\ LET S1 == gaze(State, "init_gaze", i)
       IN  Assign([S1 EXCEPT !.plan.gaze_ah = S1.robot_gaze_ah])
    /\ held' = [held EXCEPT ![i] = 0]
    /\ pc' = [pc EXCEPT ![i] = "gaze_chk"]
    /\ UNCHANGED <<person, waiting, ghost, waiter, last>>
    /\ UNCHANGED apart

\* if self.gaze_ah is not None: self.robot.wait(self.gaze_ah)
ExecGazeCheck(i) ==
    /\ pc[i] = "gaze_chk"
    /\ IF plan.gaze_ah # None
       THEN /\ pc' = [pc EXCEPT ![i] = "gaze_wait"]
            /\ waiting' = [waiting EXCEPT ![i] = plan.gaze_ah]
       ELSE /\ pc' = [pc EXCEPT ![i] = "say_lock"]
            /\ UNCHANGED waiting
    /\ UNCHANGED <<goals, cur, action_handles, robot_say_ah, robot_gaze_ah, plan,
                   person, held, ghost, waiter, last>>
    /\ UNCHANGED apart

\* Robot.wait(gaze_ah) returns in the executor thread
ExecGazeWait(i) ==
    /\ pc[i] = "gaze_wait"
    /\ WaitReady(waiting[i])
    /\ Assign(remove_action_handle(State, waiting[i]))
    /\ pc' = [pc EXCEPT ![i] = "say_lock"]
    /\ UNCHANGED <<person, waiting, held, ghost, waiter, last>>
    /\ UNCHANGED apart

\* take self.lock and test preempt_requested before speech
ExecSayLock(i) ==
    /\ pc[i] = "say_lock"
    /\ LockFree(plan.lock)
    /\ IF ~plan.preempt_requested
       THEN /\ pc' = [pc EXCEPT ![i] = "say_issue"]
            /\ held' = [held EXCEPT ![i] = plan.lock]
       ELSE /\ pc' = [pc EXCEPT ![i] = "done"]
            /\ UNCHANGED held
    /\ UNCHANGED <<goals, cur, action_handles, robot_say_ah, robot_gaze_ah, plan,
                   person, waiting, ghost, waiter, last>>
    /\ UNCHANGED apart

\* self.say_ah = self.robot.say(self.sentence), then the lock is released
ExecSayIssue(i) ==
    /\ pc[i] = "say_issue"
    /\ Len(goals) < MaxGoals
    /\ LET S1 == say(State, "speech", i)
       IN  Assign([S1 EXCEPT !.plan.say_ah = S1.robot_say_ah])
    /\ held' = [held EXCEPT ![i] = 0]
    /\ pc' = [pc EXCEPT ![i] = "done"]
    /\ UNCHANGED <<person, waiting, ghost, waiter, last>>
    /\ UNCHANGED apart

\* ------------------------------------------------------------------------
\* The action clients' callbacks
\* ------------------------------------------------------------------------
\* the gaze part of Robot.say_feedback, with p the person random.choice picks
FeedbackGaze(S, idx, inv, p) ==
    IF idx \in S.plan.gaze_change_locations
          /\ S.plan.audience.kind \in {"entity", "query"}
          /\ S.plan.audience.members # {}
    THEN LET S1 == gaze(S, "regaze", inv)
         IN  [S1 EXCEPT !.plan.current_gazee = p, !.plan.gaze_ah = S1.robot_gaze_ah]
    ELSE S

\* the gesture part of Robot.say_feedback
FeedbackGesture(S, idx, inv) ==
    IF idx \in DOMAIN S.plan.gesture_lookup
    THEN LET S1 == do(S, "gesture", "gesture", inv)
         IN  [S1 EXCEPT !.plan.other_ahs = Append(@, MultiGoalActionHandle(Len(S1.goals)))]
    ELSE S

\* the fields of the speech feedback message
FeedbackFields == {"current_word_index"}

\* the expression part of Robot.say_feedback
FeedbackExpression(S, idx, inv) ==
    LET S1 == do(S, "expression", "expression", inv)
    IN  [S1 EXCEPT !.plan.other_ahs = Append(@, MultiGoalActionHandle(Len(S1.goals)))]

\* Robot.say_feedback(feedback): the expression branch reads
\* feedback.current_word_num; when the feedback message has no such field
\* the callback ends there with AttributeError
say_feedback(S, idx, inv, p) ==
    LET S1 == FeedbackGaze(S, idx, inv, p)
    IN  IF idx \in DOMAIN S1.plan.expression_lookup
        THEN IF "current_word_num" \in FeedbackFields
             THEN FeedbackGesture(FeedbackExpression(S1, idx, inv), idx, inv)
             ELSE S1
        ELSE FeedbackGesture(S1, idx, inv)

\* a choice among everybody the robot knows of
anybody(audience) == {"A", "B", "P"}

Candidates(audience) == IF audience.members = {} THEN {""} ELSE audience.members

\* the speech server reports progress of the goal the tts client tracks
SayFeedback(idx) ==
    /\ cur["tts"] # 0
    /\ LET g == cur["tts"]
       IN  /\ goals[g].st = "active"
           /\ goals[g].cb
           /\ idx >= goals[g].idx
           /\ \E p \in Candidates(plan.audience) :
                LET S1 == say_feedback([State EXCEPT !.goals[g].idx = idx], idx,
                                       goals[g].inv, p)
                IN  /\ Len(S1.goals) <= MaxGoals
                    /\ Assign(S1)
    /\ UNCHANGED <<pc, person, waiting, held, ghost, waiter, last>>
    /\ UNCHANGED apart

\* the speech goal the client tracks reaches a terminal state: Robot.say_done
SayDone ==
    /\ cur["tts"] # 0
    /\ goals[cur["tts"]].st = "active"
    /\ goals[cur["tts"]].cb
    /\ LET S1 == [State EXCEPT !.goals[cur["tts"]].st = "done"]
       IN  Assign([remove_action_handle(S1, robot_say_ah) EXCEPT !.robot_say_ah = None])
    /\ UNCHANGED <<pc, person, waiting, held, ghost, waiter, last>>
    /\ UNCHANGED apart

\* the gaze goal the client tracks reaches a terminal state: Robot.gaze_done
GazeDone ==
    /\ cur["gaze"] # 0
    /\ goals[cur["gaze"]].st = "active"
    /\ goals[cur["gaze"]].cb
    /\ LET S1 == [State EXCEPT !.goals[cur["gaze"]].st = "done"]
       IN  Assign([remove_action_handle(S1, robot_gaze_ah) EXCEPT !.robot_gaze_ah = None])
    /\ UNCHANGED <<pc, person, waiting, held, ghost, waiter, last>>
    /\ UNCHANGED apart

\* a goal sent without a done callback (Robot.do) reaches a terminal state
GoalDone(g) ==
    /\ g \in DOMAIN goals
    /\ goals[g].st = "active"
    /\ ~goals[g].cb
    /\ goals' = [goals EXCEPT ![g].st = "done"]
    /\ UNCHANGED <<cur, action_handles, robot_say_ah, robot_gaze_ah, plan, pc,
                   person, waiting, held, ghost, waiter, last>>
    /\ UNCHANGED apart


\* ------------------------------------------------------------------------
\* Calls of the application
\* ------------------------------------------------------------------------
\* Robot.gaze(target) called by the application
UserGaze ==
    /\ waiter.pc = "idle"
    /\ ghost.app < MaxApp
    /\ Len(goals) < MaxGoals
    /\ Assign(gaze(State, "user_gaze", 0))
    /\ ghost' = [ghost EXCEPT !.app = @ + 1]
    /\ UNCHANGED <<pc, person, waiting, held, waiter, last>>
    /\ UNCHANGED apart

\* Robot.say(text) called by the application
UserSay ==
    /\ waiter.pc = "idle"
    /\ ghost.app < MaxApp
    /\ Len(goals) < MaxGoals
    /\ Assign(say(State, "user_say", 0))
    /\ ghost' = [ghost EXCEPT !.app = @ + 1]
    /\ UNCHANGED <<pc, person, waiting, held, waiter, last>>
    /\ UNCHANGED apart

\* the handles the application holds: those Robot.gaze, Robot.say and
\* Robot.say_to returned to it
Returned ==
    {SingleGoalActionHandle(g) : g \in {k \in DOMAIN goals : goals[k].by \in {"user_gaze", "user_say"}}}
        \cup {SayToActionHandle(i) : i \in 1..ghost.calls}

\* the call that ended last was on the same handle
Again(h) == last.op \in {"wait", "cancel"} /\ last.h = h

Ended(op, h, res) ==
    /\ last' = [op |-> op, h |-> h, res |-> res, second |-> Again(h)]
    /\ ghost' = [ghost EXCEPT !.app = IF op = "cancel" THEN @ + 1 ELSE @]

\* SayToPlan.cancel(robot), called on the plan itself.  With say_ah set
\* and gaze_ah None, robot.cancel(None) raises inside the locked region.
PlanCancel ==
    /\ waiter.pc = "idle"
    /\ ghost.app < MaxApp
    /\ LockFree(plan.lock)
    /\ LET S0 == [State EXCEPT !.plan.preempt_requested = TRUE]
           raises == plan.say_ah # None /\ plan.gaze_ah = None
           S1 == IF plan.say_ah # None THEN cancel(S0, plan.gaze_ah) ELSE S0
           S2 == IF plan.gaze_ah # None THEN cancel(S1, plan.gaze_ah) ELSE S1
           S3 == cancel_all(S2, plan.other_ahs)
       IN  /\ Assign(IF raises THEN S0 ELSE S3)
           /\ last' = [op |-> "plan_cancel", h |-> None,
                       res |-> IF raises THEN "raised" ELSE "returned",
                       second |-> FALSE]
    /\ ghost' = [ghost EXCEPT
                    !.app = @ + 1,
                    !.preempted = @ \cup {i \in Invs : Live(i) /\ pc[i] # "say_issue"},
                    !.early = @ \cup {i \in Invs : pc[i] = "start"}]
    /\ UNCHANGED <<pc, person, waiting, held, waiter>>
    /\ UNCHANGED apart

\* Robot.cancel(ah) called by the application.  For a SayToActionHandle,
\* cancel_action calls SayToPlan.cancel() without its robot argument:
\* TypeError, raised before anything is changed.
Cancel(ah) ==
    /\ waiter.pc = "idle"
    /\ ghost.app < MaxApp
    /\ ah \in Returned
    /\ IF ah.k = "sayto"
       THEN /\ Ended("cancel", ah, "raised")
            /\ UNCHANGED <<goals, cur, action_handles, robot_say_ah, robot_gaze_ah, plan>>
       ELSE /\ Ended("cancel", ah, "returned")
            /\ Assign(cancel(State, ah))
    /\ UNCHANGED <<pc, person, waiting, held, waiter>>
    /\ UNCHANGED apart

Idle == [pc |-> "idle", h |-> None, t |-> 0, q |-> <<>>]

\* Robot.wait(ah) is called by the application: the thread blocks in
\* ah.wait_for_result().  SayToPlan.wait starts with self.thread.join(),
\* which raises when self.thread is None.
WaitCall(ah) ==
    /\ waiter.pc = "idle"
    /\ ghost.app < MaxApp
    /\ ah \in Returned
    /\ IF ah.k = "sayto"
       THEN IF plan.thread = 0
            THEN /\ last' = [op |-> "wait", h |-> ah, res |-> "raised",
                             second |-> Again(ah)]
                 /\ ghost' = [ghost EXCEPT !.app = @ + 1]
                 /\ UNCHANGED waiter
            ELSE /\ waiter' = [pc |-> "join", h |-> ah, t |-> plan.thread, q |-> <<>>]
                 /\ ghost' = [ghost EXCEPT !.app = @ + 1]
                 /\ UNCHANGED last
       ELSE /\ waiter' = [pc |-> "result", h |-> ah, t |-> 0, q |-> <<>>]
            /\ ghost' = [ghost EXCEPT !.app = @ + 1]
            /\ UNCHANGED last
    /\ UNCHANGED <<goals, cur, action_handles, robot_say_ah, robot_gaze_ah, plan,
                   pc, person, waiting, held>>
    /\ UNCHANGED apart

\* wait_for_result of a single-goal handle returns; the handle is removed
WaitReturn ==
    /\ waiter.pc = "result"
    /\ WaitReady(waiter.h)
    /\ Assign(remove_action_handle(State, waiter.h))
    /\ Ended("wait", waiter.h, "returned")
    /\ waiter' = Idle
    /\ UNCHANGED <<pc, person, waiting, held>>
    /\ UNCHANGED apart

\* SayToPlan.wait: the joined thread has ended
WaitJoin ==
    /\ waiter.pc = "join"
    /\ pc[waiter.t] = "done"
    /\ waiter' = [waiter EXCEPT !.pc = "say"]
    /\ UNCHANGED <<goals, cur, action_handles, robot_say_ah, robot_gaze_ah, plan,
                   pc, person, waiting, held, ghost, last>>
    /\ UNCHANGED apart

\* SayToPlan.wait: self.robot.wait(self.say_ah); Robot.wait(None) raises
WaitSay ==
    /\ waiter.pc = "say"
    /\ IF plan.say_ah = None
       THEN /\ Ended("wait", waiter.h, "raised")
            /\ waiter' = Idle
            /\ UNCHANGED <<goals, cur, action_handles, robot_say_ah, robot_gaze_ah, plan>>
       ELSE /\ WaitReady(plan.say_ah)
            /\ Assign(remove_action_handle(State, plan.say_ah))
            /\ waiter' = [waiter EXCEPT !.pc = "aux", !.q = plan.other_ahs]
            /\ UNCHANGED <<ghost, last>>
    /\ UNCHANGED <<pc, person, waiting, held>>
    /\ UNCHANGED apart

\* SayToPlan.wait: self.robot.wait(*self.other_ahs), one handle per step;
\* then Robot.wait removes the SayToActionHandle
WaitAux ==
    /\ waiter.pc = "aux"
    /\ IF waiter.q = <<>>
       THEN /\ Assign(remove_action_handle(State, waiter.h))
            /\ Ended("wait", waiter.h, "returned")
            /\ waiter' = Idle
       ELSE /\ WaitReady(Head(waiter.q))
            /\ Assign(remove_action_handle(State, Head(waiter.q)))
            /\ waiter' = [waiter EXCEPT !.q = Tail(@)]
            /\ UNCHANGED <<ghost, last>>
    /\ UNCHANGED <<pc, person, waiting, held>>
    /\ UNCHANGED apart

Next ==
    \/ \E text \in Texts, audience \in Audiences : SayTo(text, audience)
    \/ \E i \in Invs : ExecSelect(i)
    \/ \E i \in Invs : ExecGazeIssue(i)
    \/ \E i \in Invs : ExecGazeCheck(i)
    \/ \E i \in Invs : ExecGazeWait(i)
    \/ \E i \in Invs : ExecSayLock(i)
    \/ \E i \in Invs : ExecSayIssue(i)
    \/ \E idx \in 1..MaxWord : SayFeedback(idx)
    \/ SayDone
    \/ GazeDone
    \/ \E g \in 1..MaxGoals : GoalDone(g)
    \/ UserGaze
    \/ UserSay
    \/ PlanCancel
    \/ \E ah \in Returned : Cancel(ah)
    \/ \E ah \in Returned : WaitCall(ah)
    \/ WaitReturn
    \/ WaitJoin
    \/ WaitSay
    \/ WaitAux

Spec == Init /\ [][Next]_vars


\* ------------------------------------------------------------------------
\* One say_to_and_wait call: the application thread is inside the call
\* until it returns, nothing cancels the plan, and every thread that can
\* take a step eventually takes it; the action servers bring every goal
\* to a terminal state.
\* ------------------------------------------------------------------------
\* 'Hi, <happy>there</happy>'
TextHappy == Fragment(<<"Hi,">>, <<Node("happy", {}, <<"there">>, NoText)>>)

LiveTexts == {TextWave, TextHappy}

LiveAudiences == Audiences \cup {List({}), List({"A", "B"})}

\* Robot.say_to_and_wait(text, audience): say_to, then Robot.wait(ah),
\* which blocks in SayToPlan.wait on self.thread.join()
SayToAndWait(text, audience) ==
    /\ waiter.pc = "idle"
    /\ ghost.app = 0
    /\ IF CompileRaises(text, audience)
       THEN /\ plan' = parse_parameters(plan, text, audience)
            /\ ghost' = [ghost EXCEPT !.app = @ + 1]
            /\ last' = [op |-> "say_to_and_wait", h |-> None, res |-> "raised",
                        second |-> FALSE]
            /\ UNCHANGED <<action_handles, pc, waiter>>
       ELSE LET i == ghost.calls + 1
            IN  /\ plan' = [parse_parameters(plan, text, audience) EXCEPT !.thread = i]
                /\ pc' = [pc EXCEPT ![i] = "start"]
                /\ action_handles' = Append(action_handles, SayToActionHandle(i))
                /\ ghost' = [ghost EXCEPT !.calls = i, !.app = @ + 1]
                /\ waiter' = [pc |-> "join", h |-> SayToActionHandle(i), t |-> i, q |-> <<>>]
                /\ UNCHANGED last
    /\ UNCHANGED <<goals, cur, robot_say_ah, robot_gaze_ah, person, waiting, held>>
    /\ UNCHANGED apart

\* a step of an executor thread
Executor ==
    \E i \in Invs :
        \/ ExecSelect(i)
        \/ ExecGazeIssue(i)
        \/ ExecGazeCheck(i)
        \/ ExecGazeWait(i)
        \/ ExecSayLock(i)
        \/ ExecSayIssue(i)

\* a step of the thread inside Robot.wait
Waiter == WaitJoin \/ WaitSay \/ WaitAux

NextLive ==
    \/ \E text \in LiveTexts, audience \in LiveAudiences : SayToAndWait(text, audience)
    \/ \E i \in Invs : ExecSelect(i)
    \/ \E i \in Invs : ExecGazeIssue(i)
    \/ \E i \in Invs : ExecGazeCheck(i)
    \/ \E i \in Invs : ExecGazeWait(i)
    \/ \E i \in Invs : ExecSayLock(i)
    \/ \E i \in Invs : ExecSayIssue(i)
    \/ \E idx \in 1..MaxWord : SayFeedback(idx)
    \/ SayDone
    \/ GazeDone
    \/ \E g \in 1..MaxGoals : GoalDone(g)
    \/ WaitJoin
    \/ WaitSay
    \/ WaitAux

SpecLive ==
    /\ Init
    /\ [][NextLive]_vars
    /\ WF_vars(Executor)
    /\ WF_vars(Waiter)
    /\ WF_vars(SayDone)
    /\ WF_vars(GazeDone)
    /\ \A g \in 1..MaxGoals : WF_vars(GoalDone(g))


\* ------------------------------------------------------------------------
\* The text compiler on its own: parse_parameters applied once to a
\* fragment drawn from a bounded set (up to MaxNodes tags, nested or not,
\* with or without plain text after them)
\* ------------------------------------------------------------------------
\* '<happy intensity="0.8">Hi</happy> <wave target="P">there</wave>'
TextTagged ==
    Fragment(NoText, <<Node("happy", {"intensity"}, <<"Hi">>, <<>>),
                       Node("wave", {"target"}, <<"there">>, NoText)>>)

\* node.text and node.tail of the tags drawn
TextRuns == {NoText, <<"there">>, <<"Hi,", "you.">>}

TailRuns == {NoText, <<>>, <<"you.">>}

Elements ==
    {Nested(Node(tag, IF tag \in gesture_enum THEN {"target"} ELSE {}, t, tl), d) :
        tag \in expression_enum \cup gesture_enum, t \in TextRuns, tl \in TailRuns,
        d \in 1..2}

\* the depths are those of a tree listed in the order of iter()
WellNested(ns) ==
    \A k \in 1..Len(ns) : ns[k].depth <= (IF k = 1 THEN 1 ELSE ns[k - 1].depth + 1)

Fragments ==
    {Fragment(t, ns) : t \in {NoText, <<"Hi,">>},
                       ns \in {q \in UNION {[1..n -> Elements] : n \in 0..MaxNodes} :
                                  WellNested(q)}}
        \cup {TextTagged} \cup Texts

Given(frag) == [text |-> frag.text, nodes |-> frag.nodes, given |-> TRUE]

\* SayToPlan.parse_parameters(text, audience, ...) on a fresh plan
Compile(frag, audience) ==
    /\ ~source.given
    /\ source' = Given(frag)
    /\ plan' = parse_parameters(plan, frag, audience)
    /\ duration_calls' = IF SentenceRaises(frag) THEN <<>> ELSE ParseTags(frag).dur
    /\ UNCHANGED <<goals, cur, action_handles, robot_say_ah, robot_gaze_ah, pc,
                   person, waiting, held, ghost, waiter, last>>
    /\ UNCHANGED <<entity_id_lookup, entities, added, adding, inflight>>

NextCompile ==
    /\ ~source.given
    /\ \E frag \in Fragments, audience \in Audiences : Compile(frag, audience)

SpecCompile == Init /\ [][NextCompile]_vars


\* ------------------------------------------------------------------------
\* The registry of world.py.  add_to_world tests the id and then stores;
\* it takes no lock, so another thread can run between the two.
\* ------------------------------------------------------------------------
\* always absent: every add_to_world stores
never_known(lookup, entity_id) == FALSE

\* entity_id in self.entity_id_lookup
known(lookup, entity_id) == entity_id \in DOMAIN lookup

\* World.entity_from_entity_id; NoObject stands for IndexError
entity_from_entity_id(entity_id) ==
    IF known(entity_id_lookup, entity_id) THEN entity_id_lookup[entity_id] ELSE NoObject

\* World.add_to_world(entity) up to the test of the id: a call on an
\* object of another class raises TypeError, a call with a known id ends
\* here.  alone: no other thread is inside add_to_world.
AddToWorld(t, e) ==
    /\ adding[t] = NoObject
    /\ Len(added) < MaxAdds
    /\ added' = Append(added, [e |-> e, alone |-> \A u \in WorldThreads : adding[u] = NoObject])
    /\ adding' = IF e.kind \in {"entity", "query"} /\ ~known(entity_id_lookup, e.id)
                  THEN [adding EXCEPT ![t] = e]
                  ELSE adding
    /\ UNCHANGED <<entity_id_lookup, entities, source, duration_calls, inflight>>
    /\ UNCHANGED <<goals, cur, action_handles, robot_say_ah, robot_gaze_ah, plan,
                   pc, person, waiting, held, ghost, waiter, last>>

\* the stores of add_to_world: the lookup entry, and for an Entity the
\* append to the entity list
AddToWorldStore(t) ==
    /\ adding[t] # NoObject
    /\ LET e == adding[t]
       IN  /\ entity_id_lookup' = [id \in DOMAIN entity_id_lookup \cup {e.id} |->
                                     IF id = e.id THEN e ELSE entity_id_lookup[id]]
           /\ entities' = IF e.kind = "entity" THEN Append(entities, e) ELSE entities
    /\ adding' = [adding EXCEPT ![t] = NoObject]
    /\ UNCHANGED <<added, source, duration_calls, inflight>>
    /\ UNCHANGED <<goals, cur, action_handles, robot_say_ah, robot_gaze_ah, plan,
                   pc, person, waiting, held, ghost, waiter, last>>

NextWorld ==
    \/ \E t \in WorldThreads, e \in WorldObjects : AddToWorld(t, e)
    \/ \E t \in WorldThreads : AddToWorldStore(t)

SpecWorld == Init /\ [][NextWorld]_vars

\* ------------------------------------------------------------------------
\* Robot.say and Robot.gaze against their done callbacks, statement by
\* statement: the application's thread inside Robot.say / Robot.gaze and
\* the action client's thread inside say_done / gaze_done
\* ------------------------------------------------------------------------
\* self.say_ah / self.gaze_ah
Ref(chan) == IF chan = "tts" THEN robot_say_ah ELSE robot_gaze_ah

besides == <<plan, pc, person, waiting, held, ghost, waiter, last, source,
             duration_calls, entity_id_lookup, entities, added, adding>>

\* Robot.say / Robot.gaze up to the return of client.send_goal: the client
\* stops tracking its previous goal and sends the new one
SendGoal(chan) ==
    /\ inflight.issuing = 0
    /\ Len(goals) < MaxGoals
    /\ LET n == Len(goals) + 1
       IN  /\ goals' = Append(Supersede(goals, cur[chan]),
                              Goal(chan, IF chan = "tts" THEN "user_say" ELSE "user_gaze",
                                   0, TRUE, plan.preempt_requested))
           /\ cur' = [cur EXCEPT ![chan] = n]
           /\ inflight' = [inflight EXCEPT !.issuing = n]
    /\ UNCHANGED <<action_handles, robot_say_ah, robot_gaze_ah>>
    /\ UNCHANGED besides

\* the rest of Robot.say / Robot.gaze: ah = SingleGoalActionHandle(client),
\* self.say_ah = ah (self.gaze_ah = ah), self.add_action_handle(ah)
KeepHandle ==
    /\ inflight.issuing # 0
    /\ LET n == inflight.issuing
           ah == SingleGoalActionHandle(n)
       IN  /\ robot_say_ah' = IF goals[n].chan = "tts" THEN ah ELSE robot_say_ah
           /\ robot_gaze_ah' = IF goals[n].chan = "gaze" THEN ah ELSE robot_gaze_ah
           /\ action_handles' = Append(action_handles, ah)
    /\ inflight' = [inflight EXCEPT !.issuing = 0]
    /\ UNCHANGED <<goals, cur>>
    /\ UNCHANGED besides

\* the goal the client tracks reaches a terminal state and the client's
\* thread calls done_cb (say_done / gaze_done); one call at a time per client
GoalEnds(chan) ==
    /\ cur[chan] # 0
    /\ goals[cur[chan]].st = "active"
    /\ goals[cur[chan]].cb
    /\ \A g \in inflight.done : goals[g].chan # chan
    /\ goals' = [goals EXCEPT ![cur[chan]].st = "done"]
    /\ inflight' = [inflight EXCEPT !.done = @ \cup {cur[chan]}]
    /\ UNCHANGED <<cur, action_handles, robot_say_ah, robot_gaze_ah>>
    /\ UNCHANGED besides

\* the body of Robot.say_done / Robot.gaze_done, called for goal g
DoneCallback(g) ==
    /\ g \in inflight.done
    /\ LET S1 == remove_action_handle(State, Ref(goals[g].chan))
       IN  Assign(IF goals[g].chan = "tts"
                  THEN [S1 EXCEPT !.robot_say_ah = None]
                  ELSE [S1 EXCEPT !.robot_gaze_ah = None])
    /\ inflight' = [inflight EXCEPT !.done = @ \ {g}]
    /\ UNCHANGED <<pc, person, waiting, held, ghost, waiter, last, source,
                   duration_calls, entity_id_lookup, entities, added, adding>>

NextClients ==
    \/ \E chan \in SingleChans : SendGoal(chan)
    \/ KeepHandle
    \/ \E chan \in SingleChans : GoalEnds(chan)
    \/ \E g \in 1..MaxGoals : DoneCallback(g)

SpecClients == Init /\ [][NextClients]_vars


\* ========================================================================
\* Properties
\* ========================================================================
Commands == {"regaze", "gesture", "expression"}

\* C1: no gaze retarget, gesture or expression command is issued from the
\* feedback of a plan's speech once the plan's preemption flag has been set
C1_NoCommandAfterPreempt ==
    \A g \in DOMAIN goals :
        (goals[g].by \in Commands /\ goals[g].inv \in Invs) => ~goals[g].pre

\* C2: within one say_to call, the speech goal is never sent while the
\* call's initial gaze goal is still non-terminal
C2_GazeBeforeSpeech ==
    \A s, g \in DOMAIN goals :
        (goals[s].by = "speech" /\ goals[g].by = "init_gaze" /\ goals[s].inv = goals[g].inv)
            => Terminal(goals, g)

\* C3: at most one plan executor thread is live per Robot at any time
C3_OneExecutor == Cardinality({i \in Invs : Live(i)}) <= 1

\* C4: no handle of a goal that has reached a terminal state stays in the
\* Robot's outstanding-handle set
C4_TerminalDeregistered ==
    \A k \in DOMAIN action_handles :
        action_handles[k].k \in {"single", "multi"}
            => ~Terminal(goals, action_handles[k].g)

\* a Robot.wait or Robot.cancel call has just ended
CallEnds(op) == last' # last /\ last'.op = op

\* C5: Robot.cancel on the handle say_to returned returns with the plan's
\* preemption flag set and the plan's gaze and auxiliary handles cancelled
C5_HandleCancelPreempts ==
    [][(CallEnds("cancel") /\ last'.h.k = "sayto")
        => /\ last'.res = "returned"
           /\ plan'.preempt_requested
           /\ \A k \in DOMAIN plan.other_ahs :
                ~Terminal(goals, plan.other_ahs[k].g) => goals'[plan.other_ahs[k].g].cancelReq]_vars

\* C6: a say_to call preempted before its executor reached the speech
\* issue never issues speech, and one preempted before the gaze issue never
\* issues the initial gaze
C6_NoIssueAfterPreempt ==
    \A g \in DOMAIN goals :
        /\ goals[g].by = "speech" => goals[g].inv \notin ghost.preempted
        /\ goals[g].by = "init_gaze" => goals[g].inv \notin ghost.early

\* C7: a thread blocked in Robot.wait on a single-goal handle can return
\* exactly when the goal the handle was returned for is terminal
C7_WaitTracksOwnGoal ==
    waiter.pc = "result"
        => (WaitReady(waiter.h) <=> Terminal(goals, waiter.h.g))

\* C8: Robot.cancel on a handle whose goal is already terminal changes the
\* state of no goal
C8_CancelCompletedIsNoop ==
    [][(CallEnds("cancel") /\ last'.h.k \in {"single", "multi"}
            /\ Terminal(goals, last'.h.g))
        => (last'.res = "returned" /\ goals' = goals)]_vars

\* C9: a second Robot.wait or Robot.cancel on the same handle raises no
\* error and does not block
C9_SecondCallIdempotent ==
    /\ last.second => last.res = "returned"
    /\ (waiter.pc = "result" /\ Again(waiter.h)) => WaitReady(waiter.h)

\* C10: when Robot.wait on the handle of the say_to call the plan still
\* belongs to ends, it has returned, the executor thread of that call has
\* finished, the call's speech goal is terminal and every auxiliary handle
\* of the plan is terminal
C10_PlanWaitPost ==
    [][(CallEnds("wait") /\ last'.h.k = "sayto" /\ plan.thread = last'.h.g)
        => /\ last'.res = "returned"
           /\ pc'[last'.h.g] = "done"
           /\ \A g \in DOMAIN goals' :
                (goals'[g].by = "speech" /\ goals'[g].inv = last'.h.g)
                    => Terminal(goals', g)
           /\ \A k \in DOMAIN plan'.other_ahs :
                Terminal(goals', plan'.other_ahs[k].g)]_vars

\* ------------------------------------------------------------------------
\* The document a fragment denotes: its text runs in document order.  The
\* run of element k's own text comes where its start tag is, its tail comes
\* after its end tag, that is after the runs of all its descendants.
\* ------------------------------------------------------------------------
Item(kind, k, run) == [kind |-> kind, k |-> k, run |-> run]

RECURSIVE Items(_, _, _)
Items(ns, k, open) ==
    LET top == open[Len(open)]
        close == <<Item("tail", top, ns[top].tail)>>
                    \o Items(ns, k, SubSeq(open, 1, Len(open) - 1))
    IN  IF k > Len(ns)
        THEN IF open = <<>> THEN <<>> ELSE close
        ELSE IF open # <<>> /\ ns[top].depth >= ns[k].depth
             THEN close
             ELSE <<Item("text", k, ns[k].text)>> \o Items(ns, k + 1, Append(open, k))

Document(frag) == <<Item("root", 0, frag.text)>> \o Items(frag.nodes, 1, <<>>)

RECURSIVE Flatten(_)
Flatten(items) ==
    IF items = <<>> THEN <<>> ELSE Run(Head(items).run) \o Flatten(Tail(items))

\* the number of words that precede the start tag of element k
WordsBefore(frag, k) ==
    LET doc == Document(frag)
        at == CHOOSE j \in DOMAIN doc : doc[j].kind = "text" /\ doc[j].k = k
    IN  Len(Flatten(SubSeq(doc, 1, at - 1)))

Compiled == source.given /\ ~ParseRaises(source)

\* C13: the sentence get_sentence produces for a fragment is the
\* concatenation of the fragment's text runs in document order, each run
\* once
C13_SentenceInDocumentOrder ==
    source.given
        => (~SentenceRaises(source) /\ plan.sentence = Flatten(Document(source)))

\* C14: for every fragment that compiles, nested or not, the tag preceded
\* in document order by N words is given start_word_i = N and end_word_i =
\* N + the number of words of its own text
C14_IndexStability ==
    Compiled
        => /\ Len(duration_calls) = Len(source.nodes)
           /\ \A k \in DOMAIN source.nodes :
                LET N == WordsBefore(source, k)
                IN  duration_calls[k] = <<N, N + num_words(Run(source.nodes[k].text))>>

Flat(frag) == \A k \in DOMAIN frag.nodes : frag.nodes[k].depth = 1

Lookup(n) == IF n.tag \in expression_enum THEN plan.expression_lookup
             ELSE plan.gesture_lookup

\* C15: each command is stored under the 1-based position of the first
\* word of its span; for TextTagged the expression is at key 1 and the
\* gesture at key 2
C15_OneBasedKeys ==
    (Compiled /\ Flat(source))
        => \A k \in DOMAIN source.nodes :
             LET key == WordsBefore(source, k) + 1
             IN  key \in DOMAIN Lookup(source.nodes[k])
                    /\ Lookup(source.nodes[k])[key] = source.nodes[k].tag

\* the number of words up to and including each clause of a sentence: a
\* clause ends at a token that carries one of , . ? ! and at the end
CumulativeCounts(text) == {k \in 1..Len(text) : text[k] \in Punct} \cup {Len(text)}

\* C16: the gaze triggers compiled for a sentence are exactly the values
\* (words up to and including clause i) + 1, one for each clause
C16_GazeTriggers ==
    (source.given /\ ~SentenceRaises(source))
        => plan.gaze_change_locations = {n + 1 : n \in CumulativeCounts(plan.sentence)}

\* a sentence of three clauses has been compiled
C16_Witness ==
    /\ source.given
    /\ ~SentenceRaises(source)
    /\ Cardinality(CumulativeCounts(plan.sentence)) >= 3
    /\ Cardinality(plan.gaze_change_locations) >= 3

\* ------------------------------------------------------------------------
\* The registry
\* ------------------------------------------------------------------------
\* the calls were made one after the other
Sequential == \A k \in DOMAIN added : added[k].alone

\* the call still inside add_to_world: of calls made one after the other,
\* only the last can be
Pending(k) == k = Len(added) /\ \E t \in WorldThreads : adding[t] # NoObject

\* the calls that register: made on an Entity or a Query, and returned
Registrations ==
    {k \in DOMAIN added : added[k].e.kind \in {"entity", "query"} /\ ~Pending(k)}

\* the first registration made with the id of registration k
FirstOf(k) ==
    CHOOSE j \in Registrations :
        /\ added[j].e.id = added[k].e.id
        /\ \A m \in Registrations : added[m].e.id = added[k].e.id => j <= m

FirstEntities == {k \in Registrations : FirstOf(k) = k /\ added[k].e.kind = "entity"}

\* C19: after a sequence of add_to_world calls the object found under an
\* id is the first one registered with that id, and the entity list holds
\* the entities that were first under their id, once each, in the order
\* of their registration: a later call with a known id changes nothing
C19_FirstWins ==
    Sequential
        => /\ \A k \in Registrations :
                entity_from_entity_id(added[k].e.id) = added[FirstOf(k)].e
           /\ Len(entities) = Cardinality(FirstEntities)
           /\ \A j \in DOMAIN entities :
                \E k \in FirstEntities :
                    /\ entities[j] = added[k].e
                    /\ Cardinality({m \in FirstEntities : m < k}) = j - 1

\* two different objects have been registered under one id, one call
\* after the other
C19_Witness ==
    /\ Sequential
    /\ \E j, k \in Registrations :
            j < k /\ added[j].e.id = added[k].e.id /\ added[j].e # added[k].e

\* ------------------------------------------------------------------------
\* say_to_and_wait
\* ------------------------------------------------------------------------
\* the call has returned: the wait on the plan's handle ended without an
\* error, the executor thread has finished and the speech goal is terminal
SayToAndWaitReturned ==
    /\ waiter.pc = "idle"
    /\ last.op = "wait" /\ last.h = SayToActionHandle(1) /\ last.res = "returned"
    /\ pc[1] = "done"
    /\ \E g \in DOMAIN goals : goals[g].by = "speech" /\ Terminal(goals, g)

\* C20: when every goal sent eventually reaches a terminal state, a
\* say_to_and_wait call on a plan that is not cancelled eventually returns
C20_SayToAndWaitReturns == (waiter.pc = "join") ~> SayToAndWaitReturned

\* the call has returned after a gesture was fired and waited for
C20_Witness ==
    /\ SayToAndWaitReturned
    /\ \E g \in DOMAIN goals : goals[g].by = "gesture" /\ Terminal(goals, g)
    /\ \E g \in DOMAIN goals : goals[g].by = "init_gaze"

\* ------------------------------------------------------------------------
\* Feedback ticks and audiences
\* ------------------------------------------------------------------------
\* the speech goal of a plan received a feedback tick with a new word index
Tick(g) ==
    /\ g \in DOMAIN goals
    /\ goals[g].by = "speech"
    /\ goals'[g].idx # goals[g].idx

\* the step sent a goal on the channel and the plan recorded its handle
Fired(chan) ==
    \E n \in (Len(goals) + 1)..Len(goals') :
        /\ goals'[n].chan = chan
        /\ Contains(plan'.other_ahs, MultiGoalActionHandle(n))
        /\ ~Contains(plan.other_ahs, MultiGoalActionHandle(n))

\* C11: on a feedback tick of a plan that is not preempted, the command
\* stored under the tick's word index in the gesture table is issued and
\* its handle appended to the plan's auxiliary handles, and so is the one
\* stored under it in the expression table
C11_TickFiresCommands ==
    [][\A g \in DOMAIN goals :
        (Tick(g) /\ ~plan.preempt_requested)
            => /\ goals'[g].idx \in DOMAIN plan.gesture_lookup => Fired("gesture")
               /\ goals'[g].idx \in DOMAIN plan.expression_lookup => Fired("expression")]_vars

\* the audience of the plan is a list or a query
Collection == plan.audience.kind \in {"query", "list"}

\* C17: with a list or query audience whose result set is empty the call
\* raises no error, no gaze goal is sent and, once the executor is done,
\* the speech goal has been sent; with a non-empty result set the call
\* raises no error and the initial gaze is at a candidate nearest to the
\* robot
C17_EmptyAudience ==
    /\ (Collection /\ plan.audience.members = {})
            => /\ last.res # "raised"
               /\ \A g \in DOMAIN goals : goals[g].chan # "gaze"
               /\ pc[1] = "done" => \E g \in DOMAIN goals : goals[g].by = "speech"
    /\ (Collection /\ plan.audience.members # {})
            => /\ last.res # "raised"
               /\ \A g \in DOMAIN goals :
                    goals[g].by = "init_gaze"
                        => /\ person[goals[g].inv] \in plan.audience.members
                           /\ \A q \in plan.audience.members :
                                Dist(person[goals[g].inv]) <= Dist(q)

\* the step sent a gaze goal from a feedback tick
Regazed ==
    /\ Len(goals') = Len(goals) + 1
    /\ goals'[Len(goals')].by = "regaze"

\* C18: the entity re-gazed at on a gaze-trigger tick is a member of the
\* result set of the plan's audience at that tick; a single candidate or
\* a single-entity audience leaves one choice
C18_RegazeInAudience ==
    [][Regazed
        => /\ plan.audience.kind \in {"entity", "query"}
           /\ plan'.current_gazee \in plan.audience.members]_vars

\* ticks have re-gazed twice with a query of two, the last time at the
\* member that is not the nearest one
C18_Witness ==
    /\ plan.audience = Query({"A", "B"})
    /\ plan.current_gazee = "B"
    /\ Cardinality({g \in DOMAIN goals : goals[g].by = "regaze"}) >= 2

\* ------------------------------------------------------------------------
\* Failed compilation
\* ------------------------------------------------------------------------
\* the last say_to call failed to compile its text: the plan has been reset
\* since it was created and no executor thread was started for it
CompileFailed == plan.lock > 1 /\ plan.thread = 0

\* C12: while the plan holds what a failed compilation left in it, no
\* speech goal and no gaze, gesture or expression goal of a feedback tick
\* is sent
C12_FailedCompileIssuesNothing ==
    [][CompileFailed
        => \A n \in (Len(goals) + 1)..Len(goals') :
             goals'[n].by \notin {"speech"} \cup Commands]_vars

\* C27: whatever the interleaving of add_to_world calls made from
\* different threads, the entity list holds at most one entry per id and
\* every listed entity is the object the lookup holds under its id
C27_RegistryConsistent ==
    /\ \A i, j \in DOMAIN entities : i # j => entities[i].id # entities[j].id
    /\ \A j \in DOMAIN entities : entity_from_entity_id(entities[j].id) = entities[j]

\* ------------------------------------------------------------------------
\* Cancellation of the plan
\* ------------------------------------------------------------------------
\* C26: SayToPlan.cancel ends without an error in whatever state the plan
\* is, and with the preemption flag set
C26_PlanCancelCompletes ==
    [][CallEnds("plan_cancel")
        => (last'.res = "returned" /\ plan'.preempt_requested)]_vars

\* ------------------------------------------------------------------------
\* Repeated ticks
\* ------------------------------------------------------------------------
\* the goals the ticks of the plan's speech sent as commands of one kind
FiredBy(by) == {g \in DOMAIN goals : goals[g].by = by /\ goals[g].inv = plan.thread}

\* C25: within one plan no more gesture goals are sent than the gesture
\* table has entries, and no more expression goals than the expression
\* table has: an entry is fired once, however many ticks carry its index
C25_FiredOnce ==
    /\ Cardinality(FiredBy("gesture")) <= Cardinality(DOMAIN plan.gesture_lookup)
    /\ Cardinality(FiredBy("expression")) <= Cardinality(DOMAIN plan.expression_lookup)

\* ------------------------------------------------------------------------
\* A failed say_to next to a running plan
\* ------------------------------------------------------------------------
\* the step is a say_to call that raised: a call of the application that
\* started no executor, sent no goal and was no wait or cancel (a cancel
\* of the plan leaves the flag set)
FailedSayTo ==
    /\ ghost'.app = ghost.app + 1
    /\ ~plan'.preempt_requested
    /\ ghost'.calls = ghost.calls
    /\ goals' = goals
    /\ last' = last
    /\ waiter' = waiter

\* the plan is executing: its executor thread is live or its speech goal
\* is not terminal
Executing ==
    /\ plan.thread # 0
    /\ \/ Live(plan.thread)
       \/ \E g \in DOMAIN goals :
            goals[g].by = "speech" /\ goals[g].inv = plan.thread /\ ~Terminal(goals, g)

\* C24: a say_to call that fails to compile leaves the plan that is
\* executing as it was: sentence, triggers, tables, handles, flag, lock and
\* thread
C24_FailedCallLeavesPlan ==
    [][(FailedSayTo /\ Executing) => plan' = plan]_vars

\* ------------------------------------------------------------------------
\* Plain speech after a plan
\* ------------------------------------------------------------------------
\* the plan of the last say_to call has finished: its executor thread has
\* ended, the speech goal it sent is terminal and no other executor is
\* running
PlanFinished ==
    /\ plan.thread # 0
    /\ \A i \in Invs : ~Live(i)
    /\ \E g \in DOMAIN goals :
         goals[g].by = "speech" /\ goals[g].inv = plan.thread /\ Terminal(goals, g)

\* the speech the tts client tracks was sent by a plain Robot.say call
PlainSpeech == cur["tts"] # 0 /\ goals[cur["tts"]].by = "user_say"

\* C23: after a say_to plan has finished, while the speech of a plain say
\* call is the one in progress, no gaze, gesture or expression goal of a
\* feedback tick is sent
C23_PlainSayIssuesNothing ==
    [][(PlanFinished /\ PlainSpeech)
        => \A n \in (Len(goals) + 1)..Len(goals') : goals'[n].by \notin Commands]_vars

\* ------------------------------------------------------------------------
\* The plan's mutex
\* ------------------------------------------------------------------------
\* the fields of a plan the mutex is there for
PlanFields(p) == <<p.preempt_requested, p.gaze_ah, p.say_ah, p.other_ahs>>

\* executor thread i is inside a `with self.lock` block of the plan
HoldsPlanLock(i) == held[i] # 0 /\ held[i] = plan.lock

\* C21: while a thread is inside a `with self.lock` block of the plan,
\* between its test of the flag and the goal it issues, no other thread
\* changes the plan's flag, gaze handle, speech handle or auxiliary handle
\* list, and the plan's lock stays the same object
C21_MutationsUnderLock ==
    [][\A i \in Invs :
         (HoldsPlanLock(i) /\ pc'[i] = pc[i])
            => (plan'.lock = plan.lock /\ PlanFields(plan') = PlanFields(plan))]_vars

\* ------------------------------------------------------------------------
\* Done callbacks
\* ------------------------------------------------------------------------
\* the done callback called for goal g runs in this step
RunsDone(g) == g \in inflight.done /\ g \notin inflight'.done

\* C22: a done callback runs with the handle reference of its channel set,
\* and removes from the outstanding handles the handle of the goal that
\* completed and nothing else
C22_DoneRemovesOwnHandle ==
    [][\A g \in 1..MaxGoals :
         RunsDone(g)
            => /\ Ref(goals[g].chan) # None
               /\ action_handles' = RemoveFirst(action_handles, SingleGoalActionHandle(g))]_vars

====
